---- MODULE Spec2Model ----
(***************************************************************************)
(* Verification model of the Recurring Upkeep Scheduler plugin:            *)
(*   - DateUtils (local-date parsing, next-due-date, days-remaining),      *)
(*   - RecurringUpkeepUtils (status classification, completion history),   *)
(*   - TaskStyling / table view (status class, completion eligibility).    *)
(* Time is counted in hours since 1970-01-01T00:00Z; a JavaScript Date is  *)
(* a record [valid, t] with t the UTC instant.  The local timezone is part *)
(* of the state: a standard offset in hours and whether it observes        *)
(* daylight saving time (EU rule).                                         *)
(***************************************************************************)
EXTENDS Integers, Sequences, FiniteSets, TLC

VARIABLES
  tz,        \* timezone the plugin runs in
  locale,    \* language of the user interface
  task,      \* frontmatter of the task under consideration
  now,       \* the "now" date string handed to the core
  due,       \* due-date argument of calculateDaysRemaining
  clock,     \* system time, UTC hours since the epoch
  out,       \* results of the DateUtils operation applied
  processed, \* the task as TaskProcessor.processTask returns it
  view,      \* what the views derive from the processed task
  pc,        \* which operation has been applied
  note,      \* text of the task's note below the frontmatter
  startNote, \* the note's text before the first completion
  username,  \* what os.userInfo() reports, "-" when it is unavailable
  completions, \* markTaskComplete calls that returned success
  appends,   \* history rows written
  lastRead,  \* note text the last appendCompletionHistory read
  lastRow,   \* row the last appendCompletionHistory wrote
  result,    \* what the last markTaskComplete returned
  calls,     \* per complete button: the markTaskComplete call it started
  filt,      \* a filter query, the filter parsed from it, the tasks it is applied to
  wem        \* the WidgetEventManager: registry, listeners, timers, refresh calls

dateVars   == <<due, out>>
statusVars == <<processed, view>>
histVars   == <<note, startNote, username, completions, appends, lastRead, lastRow, result,
               calls, filt, wem>>

vars == <<tz, locale, task, now, clock, pc, dateVars, statusVars, histVars>>

(***************************************************************************)
(* Calendar arithmetic of the JavaScript Date object.                      *)
(***************************************************************************)
HoursPerDay == 24

IsLeap(y) == (y % 4 = 0 /\ y % 100 # 0) \/ (y % 400 = 0)

DaysInMonth(y, m) ==
  IF m = 2 THEN (IF IsLeap(y) THEN 29 ELSE 28)
  ELSE IF m \in {4, 6, 9, 11} THEN 30 ELSE 31

\* day number (days since 1970-01-01) of the civil date y-m-d, m in 1..12;
\* d may lie outside the month (the day number simply moves on)
DaysFromCivil(y, m, d) ==
  LET yy  == IF m <= 2 THEN y - 1 ELSE y
      era == yy \div 400
      yoe == yy - era * 400
      mp  == IF m > 2 THEN m - 3 ELSE m + 9
      doy == (153 * mp + 2) \div 5 + d - 1
      doe == yoe * 365 + yoe \div 4 - yoe \div 100 + doy
  IN  era * 146097 + doe - 719468

\* civil date of year-of-era yoe, day-of-year doy (years start on March 1)
CivilFromYearDay(era, yoe, doy) ==
  LET mp == (5 * doy + 2) \div 153
      mm == IF mp < 10 THEN mp + 3 ELSE mp - 9
  IN  [y |-> yoe + era * 400 + (IF mm <= 2 THEN 1 ELSE 0),
       m |-> mm,
       d |-> doy - (153 * mp + 2) \div 5 + 1]

\* civil date of day-of-era doe, year-of-era yoe
CivilFromEraYear(era, doe, yoe) ==
  CivilFromYearDay(era, yoe, doe - (365 * yoe + yoe \div 4 - yoe \div 100))

\* civil date of day-of-era doe in the 400-year era
CivilFromEraDay(era, doe) ==
  CivilFromEraYear(era, doe,
    (doe - doe \div 1460 + doe \div 36524 - doe \div 146096) \div 365)

\* civil date [y, m, d] of day number z
CivilFromDays(z) ==
  CivilFromEraDay((z + 719468) \div 146097, (z + 719468) % 146097)

\* ECMAScript MakeDay: month index 0..11 with carry into the year, day of
\* month with carry into the following (or preceding) months
MakeDay(year, monthIndex, date) ==
  DaysFromCivil(year + monthIndex \div 12, (monthIndex % 12) + 1, 1) + date - 1

\* last Sunday of month m of year y (1970-01-01 was a Thursday)
SundayOnOrBefore(day) == day - ((day + 4) % 7)

LastSunday(y, m) == SundayOnOrBefore(DaysFromCivil(y, m, DaysInMonth(y, m)))

\* daylight saving time is in effect at UTC instant t (EU rule: from
\* 01:00 UTC on the last Sunday of March to 01:00 UTC on the last Sunday
\* of October)
InDstOfYear(t, y) ==
  /\ t >= LastSunday(y, 3) * HoursPerDay + 1
  /\ t <  LastSunday(y, 10) * HoursPerDay + 1

InDst(t) == InDstOfYear(t, CivilFromDays(t \div HoursPerDay).y)

\* offset of local time from UTC at instant t, in hours
Offset(zone, t) == zone.std + (IF zone.dst /\ InDst(t) THEN 1 ELSE 0)

LocalTime(zone, t) == t + Offset(zone, t)

\* ECMAScript UTC(t): a local time that exists twice is read with the
\* offset before the transition, one that does not exist is moved forward
UTCOfLocal(zone, lt) ==
  IF zone.dst /\ InDst(lt - zone.std - 1) THEN lt - zone.std - 1 ELSE lt - zone.std

InvalidDate == [valid |-> FALSE, t |-> 0]

\* new Date(year, monthIndex, day): local midnight
NewDateLocal(zone, year, monthIndex, day) ==
  [valid |-> TRUE, t |-> UTCOfLocal(zone, MakeDay(year, monthIndex, day) * HoursPerDay)]

\* local calendar fields of a Date
FieldsOfCivil(c, hours) ==
  [year |-> c.y, month |-> c.m - 1, date |-> c.d, hours |-> hours]

FieldsOfLocalTime(lt) ==
  FieldsOfCivil(CivilFromDays(lt \div HoursPerDay), lt % HoursPerDay)

LocalFields(zone, date) == FieldsOfLocalTime(LocalTime(zone, date.t))

getFullYear(zone, date) == LocalFields(zone, date).year
getMonth(zone, date)    == LocalFields(zone, date).month
getDate(zone, date)     == LocalFields(zone, date).date

\* Date.prototype.setDate / setMonth / setFullYear: local fields are
\* replaced, the local time of day is kept
\* the Date at local year / month index / day of month / hour of day
MakeLocal(zone, year, monthIndex, day, hours) ==
  [valid |-> TRUE,
   t |-> UTCOfLocal(zone, MakeDay(year, monthIndex, day) * HoursPerDay + hours)]

SetDateOf(zone, f, day)          == MakeLocal(zone, f.year, f.month, day, f.hours)
SetMonthOf(zone, f, monthIndex)  == MakeLocal(zone, f.year, monthIndex, f.date, f.hours)
SetFullYearOf(zone, f, year)     == MakeLocal(zone, year, f.month, f.date, f.hours)

setDate(zone, date, day)         == SetDateOf(zone, LocalFields(zone, date), day)
setMonth(zone, date, monthIndex) == SetMonthOf(zone, LocalFields(zone, date), monthIndex)
setFullYear(zone, date, year)    == SetFullYearOf(zone, LocalFields(zone, date), year)

(***************************************************************************)
(* Date strings.  A string is kept with its text and, for the shapes the   *)
(* code distinguishes, the numbers written in it:                          *)
(*   "ymd"    YYYY-MM-DD           "ym"    YYYY-MM (ISO year-month)        *)
(*   "never"  the literal never    "junk"  any other text                  *)
(*   "empty"  the empty string     "absent" undefined    "null" null       *)
(***************************************************************************)
\* String.prototype.padStart(2, '0') of a non-negative number
Pad2(n) == IF n < 10 THEN "0" \o ToString(n) ELSE ToString(n)

Str(y, m, d) ==
  [form |-> "ymd", y |-> y, m |-> m, d |-> d,
   text |-> ToString(y) \o "-" \o Pad2(m) \o "-" \o Pad2(d)]

StrYM(y, m) ==
  [form |-> "ym", y |-> y, m |-> m, d |-> 0, text |-> ToString(y) \o "-" \o Pad2(m)]

Other(form, text) == [form |-> form, y |-> 0, m |-> 0, d |-> 0, text |-> text]

Null       == Other("null", "")
Absent     == Other("absent", "")
EmptyStr   == Other("empty", "")
NeverStr   == Other("never", "never")
JunkStr    == Other("junk", "soon")

\* JavaScript truthiness of a string | null | undefined
Falsy(s) == s.form \in {"null", "absent", "empty"}

(***************************************************************************)
(* DateUtils                                                               *)
(***************************************************************************)
NeverDays == -9999

\* new Date().toISOString().split('T')[0]: the UTC calendar date of the clock
StrOfCivil(c) == Str(c.y, c.m, c.d)

TodayISO(t) == StrOfCivil(CivilFromDays(t \div HoursPerDay))

\* /^\d{4}-\d{2}-\d{2}$/.test(cleanDateString)
MatchesYMD(s) == s.form = "ymd" /\ Len(s.text) = 10

parseLocalDate(zone, dateInput) ==
  IF Falsy(dateInput) THEN InvalidDate
  ELSE IF ~MatchesYMD(dateInput) THEN InvalidDate
  ELSE NewDateLocal(zone, dateInput.y, dateInput.m - 1, dateInput.d)

\* new Date(string): the ISO forms YYYY-MM-DD and YYYY-MM are read as UTC
\* midnight, text that is no date gives an invalid Date
NewDateFromString(s) ==
  IF s.form = "ymd" THEN [valid |-> TRUE, t |-> DaysFromCivil(s.y, s.m, s.d) * HoursPerDay]
  ELSE IF s.form = "ym" THEN [valid |-> TRUE, t |-> DaysFromCivil(s.y, s.m, 1) * HoursPerDay]
  ELSE InvalidDate

\* intervalUnit?.toLowerCase()
ToLowerCase(u) ==
  IF u = "Months" THEN "months" ELSE IF u = "DAYS" THEN "days" ELSE u

\* `${resultYear}-${resultMonth}-${resultDay}` with padStart(2, '0')
FormatResult(zone, nextDue) ==
  Str(getFullYear(zone, nextDue), getMonth(zone, nextDue) + 1, getDate(zone, nextDue))

\* the month arithmetic's overflow handling: a day of month that changed
\* is replaced by the last day of the month before
ClampToMonthEnd(zone, nextDue, targetDay) ==
  IF getDate(zone, nextDue) # targetDay THEN setDate(zone, nextDue, 0) ELSE nextDue

\* the unit switch of calculateNextDueDate on a valid Date
AddInterval(zone, date, interval, normalizedUnit) ==
  IF normalizedUnit \in {"day", "days"}
    THEN FormatResult(zone, setDate(zone, date, getDate(zone, date) + interval))
  ELSE IF normalizedUnit \in {"week", "weeks"}
    THEN FormatResult(zone, setDate(zone, date, getDate(zone, date) + interval * 7))
  ELSE IF normalizedUnit \in {"month", "months"}
    THEN FormatResult(zone,
           ClampToMonthEnd(zone, setMonth(zone, date, getMonth(zone, date) + interval),
                           getDate(zone, date)))
  ELSE IF normalizedUnit \in {"year", "years"}
    THEN FormatResult(zone, setFullYear(zone, date, getFullYear(zone, date) + interval))
  ELSE Null

\* the checks of calculateNextDueDate once the string is read as a Date
NextDueOfDate(zone, date, interval, intervalUnit) ==
  IF ~date.valid THEN Null
  ELSE IF interval <= 0 THEN Null
  ELSE AddInterval(zone, date, interval, ToLowerCase(intervalUnit))

calculateNextDueDate(zone, lastDoneDate, interval, intervalUnit) ==
  IF Falsy(lastDoneDate) THEN Null
  ELSE NextDueOfDate(zone, NewDateFromString(lastDoneDate), interval, intervalUnit)

\* Math.ceil(x / 24) for an integer number of hours x
CeilDays(x) == -((-x) \div HoursPerDay)

\* now || new Date().toISOString().split('T')[0]
TodayString(nowArg, t) == IF Falsy(nowArg) THEN TodayISO(t) ELSE nowArg

\* Math.ceil of the difference of two parsed dates in days
DaysBetweenDates(dueD, today) ==
  IF ~dueD.valid \/ ~today.valid THEN NeverDays
  ELSE CeilDays(dueD.t - today.t)

calculateDaysRemaining(zone, dueDate, nowArg, t) ==
  IF Falsy(dueDate) THEN NeverDays
  ELSE DaysBetweenDates(parseLocalDate(zone, dueDate),
                        parseLocalDate(zone, TodayString(nowArg, t)))

\* two Dates have the same local day, month and year
SameLocalDay(zone, date, today) ==
  IF ~date.valid \/ ~today.valid THEN FALSE
  ELSE /\ getDate(zone, date) = getDate(zone, today)
       /\ getMonth(zone, date) = getMonth(zone, today)
       /\ getFullYear(zone, date) = getFullYear(zone, today)

isToday(zone, dateString, nowArg, t) ==
  IF Falsy(dateString) THEN FALSE
  ELSE SameLocalDay(zone, parseLocalDate(zone, dateString),
                    parseLocalDate(zone, TodayString(nowArg, t)))

(***************************************************************************)
(* RecurringUpkeepUtils: status classification                             *)
(***************************************************************************)
NeverCompletedDays == -9999

calculateIntervalInDays_NoWeeks(interval, intervalUnit) ==
  IF ToLowerCase(intervalUnit) \in {"month", "months"} THEN interval * 30
  ELSE IF ToLowerCase(intervalUnit) \in {"year", "years"} THEN interval * 365
  ELSE interval

calculateIntervalInDays(interval, intervalUnit) ==
  IF ToLowerCase(intervalUnit) \in {"day", "days"} THEN interval
  ELSE IF ToLowerCase(intervalUnit) \in {"week", "weeks"} THEN interval * 7
  ELSE IF ToLowerCase(intervalUnit) \in {"month", "months"} THEN interval * 30
  ELSE IF ToLowerCase(intervalUnit) \in {"year", "years"} THEN interval * 365
  ELSE interval

\* the status texts, without their leading emoji
getLocalizedOverdue == "Overdue"

\* I18nUtils.t.status.upToDate of the current locale
getLocalizedUpToDate(loc) == IF loc = "de" THEN "Aktuell" ELSE "Up to date"

NeverCompletedStatus_Positive(loc) ==
  [status |-> getLocalizedOverdue, daysRemaining |-> 9999, calculatedNextDue |-> Null]

\* the result for a task that was never completed
NeverCompletedStatus(loc) ==
  [status |-> getLocalizedOverdue, daysRemaining |-> NeverCompletedDays,
   calculatedNextDue |-> Null]

\* nextDue || ""
OrEmpty(s) == IF Falsy(s) THEN EmptyStr ELSE s

\* the result once next due date, days remaining and today-ness are known
StatusResult(loc, t, nextDue, daysRemaining, completedToday) ==
  IF completedToday
  THEN [status |-> getLocalizedUpToDate(loc),
        daysRemaining |-> calculateIntervalInDays(t.interval, t.interval_unit),
        calculatedNextDue |-> nextDue]
  ELSE [status |-> IF daysRemaining <= 0 THEN getLocalizedOverdue
                   ELSE getLocalizedUpToDate(loc),
        daysRemaining |-> daysRemaining,
        calculatedNextDue |-> nextDue]

StatusWithNextDue(zone, loc, t, nowArg, clk, nextDue) ==
  StatusResult(loc, t, nextDue,
               calculateDaysRemaining(zone, OrEmpty(nextDue), nowArg, clk),
               isToday(zone, t.last_done, nowArg, clk))

determineTaskStatus(zone, loc, t, nowArg, clk) ==
  IF Falsy(t.last_done) \/ t.last_done.text = "" \/ t.last_done.text = "never"
  THEN NeverCompletedStatus(loc)
  ELSE StatusWithNextDue(zone, loc, t, nowArg, clk,
         calculateNextDueDate(zone, t.last_done, t.interval, t.interval_unit))

(***************************************************************************)
(* TaskProcessor                                                           *)
(***************************************************************************)
\* { ...task, ...statusInfo }
Spread(t, statusInfo) ==
  [last_done |-> t.last_done, interval |-> t.interval, interval_unit |-> t.interval_unit,
   complete_early_days |-> t.complete_early_days, has_early |-> t.has_early,
   status |-> statusInfo.status, daysRemaining |-> statusInfo.daysRemaining,
   calculatedNextDue |-> statusInfo.calculatedNextDue]

processTask(zone, loc, t, nowArg, clk) ==
  Spread(t, determineTaskStatus(zone, loc, t, TodayString(nowArg, clk), clk))

(***************************************************************************)
(* TaskStyling (five-tier revision) and the table view                     *)
(***************************************************************************)
DefaultCompleteEarlyDays == 7
DueSoonDays == 7

\* RecurringUpkeepUtils.getCompleteEarlyDays: the task's complete_early_days,
\* 7 when it is absent, 0 when it is negative
getCompleteEarlyDays(t) ==
  IF ~t.has_early THEN DefaultCompleteEarlyDays
  ELSE IF t.complete_early_days < 0 THEN 0
  ELSE t.complete_early_days

\* Math.max
Max(a, b) == IF a >= b THEN a ELSE b

\* rules 4 to 7 of getTaskStatus
ClassOfDays(daysRemaining, completeEarlyDays) ==
  IF daysRemaining < 0 THEN "recurring-upkeep-overdue"
  ELSE IF daysRemaining = 0 THEN "recurring-upkeep-due-today"
  ELSE IF daysRemaining <= Max(completeEarlyDays, DueSoonDays)
    THEN "recurring-upkeep-due-soon"
  ELSE "recurring-upkeep-up-to-date"

\* getTaskStatus(task, currentTime).statusClass
getTaskStatus(t, currentTime, clk) ==
  IF Falsy(t.last_done) THEN "recurring-upkeep-never-completed"
  ELSE IF t.last_done = TodayString(currentTime, clk) THEN "recurring-upkeep-up-to-date"
  ELSE ClassOfDays(t.daysRemaining, getCompleteEarlyDays(t))

\* getStatusClass(task): no current time is handed on
getStatusClass(t, clk) == getTaskStatus(t, Absent, clk)

isEligibleForCompletion(t, currentTime, clk) ==
  IF Falsy(t.last_done) THEN TRUE
  ELSE IF t.last_done = TodayString(currentTime, clk) THEN FALSE
  ELSE t.daysRemaining <= getCompleteEarlyDays(t)

\* canComplete of UpkeepTableView.createTaskNameCell
canComplete(t, today) ==
  Falsy(t.last_done) \/ (t.last_done # today /\ t.daysRemaining <= 0)

(***************************************************************************)
(* RecurringUpkeepUtils: completion history.  A note's text is a sequence  *)
(* of tokens: the newline character "\n", the column separator "|", and    *)
(* pieces of text that hold neither (a heading, a cell with its blanks).   *)
(***************************************************************************)
Newline == "\n"

\* parseFloat(days.toFixed(2)).toString() for days = hours / 24
formatDaysWithDecimal(hours) ==
  LET a    == IF hours < 0 THEN -hours ELSE hours
      q    == (a * 100 + 12) \div HoursPerDay
      ip   == ToString(q \div 100)
      body == IF q % 100 = 0 THEN ip
              ELSE IF q % 10 = 0 THEN ip \o "." \o ToString((q % 100) \div 10)
              ELSE ip \o "." \o Pad2(q % 100)
  IN  IF q = 0 THEN "0" ELSE IF hours < 0 THEN "-" \o body ELSE body

\* the difference of two Dates in days, "NaN" when one is invalid
DaysBetweenText(d1, d2) ==
  IF ~d1.valid \/ ~d2.valid THEN "NaN" ELSE formatDaysWithDecimal(d2.t - d1.t)

\* daysBetween(date1, date2) with date2 the ISO timestamp of instant clk
daysBetween(date1, clk) ==
  DaysBetweenText(NewDateFromString(date1), [valid |-> TRUE, t |-> clk])

\* formatDate(): the local calendar date of the clock
formatDate(zone, clk) == FormatResult(zone, [valid |-> TRUE, t |-> clk]).text

\* formatTime(): the local time of the clock, HH:MM
formatTime(zone, clk) == Pad2(LocalTime(zone, clk) % HoursPerDay) \o ":00"

getLocalizedCompletionHistorySection(loc) ==
  IF loc = "de" THEN "Erledigungsverlauf" ELSE "Completion history"

getLocalizedCompletionHistoryHeaders(loc) ==
  IF loc = "de"
  THEN [date |-> "Datum", time |-> "Zeit", daysSinceLast |-> "Tage seit letztem",
        daysScheduled |-> "Tage vorgesehen", user |-> "Benutzer"]
  ELSE [date |-> "Date", time |-> "Time", daysSinceLast |-> "Days Since Last",
        daysScheduled |-> "Days Scheduled", user |-> "User"]

\* content.endsWith('\n')
EndsWithNewline(content) == Len(content) > 0 /\ content[Len(content)] = Newline

smartAppendToTable_Always(content, newRow) == content \o <<Newline>> \o newRow

smartAppendToTable_Never(content, newRow) == content \o newRow

smartAppendToTable(content, newRow) ==
  IF ~EndsWithNewline(content) THEN content \o <<Newline>> \o newRow
  ELSE content \o newRow

\* the headings looked for, in any locale
completionHistorySections == {"## Completion history", "## Erledigungsverlauf"}

\* a search for the English heading alone
hasCompletionHistorySection_EnglishOnly(content) ==
  \E i \in 1..Len(content) : content[i] = "## Completion history"

\* completionHistorySections.some(section => content.includes(section))
hasCompletionHistorySection(content) ==
  \E i \in 1..Len(content) : content[i] \in completionHistorySections

\* `| ${a} | ${b} | ${c} | ${d} | ${e} |`
TableRow(a, b, c, d, e) ==
  <<"|", " " \o a \o " ", "|", " " \o b \o " ", "|", " " \o c \o " ",
    "|", " " \o d \o " ", "|", " " \o e \o " ", "|">>

SeparatorRow ==
  <<"|", "------", "|", "------", "|", "----------------", "|", "----------------",
    "|", "------", "|">>

HeaderRow(headers) ==
  TableRow(headers.date, headers.time, headers.daysSinceLast, headers.daysScheduled,
           headers.user)

\* a row whose days since last are counted from the date just written
NewRow_FromNewDate(zone, clk, previousLastDone, intervalDays, user) ==
  TableRow(formatDate(zone, clk), formatTime(zone, clk),
           daysBetween(TodayISO(clk), clk), ToString(intervalDays), user)

\* the row a completion adds
NewRow(zone, clk, previousLastDone, intervalDays, user) ==
  TableRow(formatDate(zone, clk), formatTime(zone, clk),
           IF Falsy(previousLastDone) THEN "-" ELSE daysBetween(previousLastDone, clk),
           ToString(intervalDays), user)

\* a new section: blank line, heading, blank line, header row, separator, row
TableSection(loc, newRow) ==
  <<Newline, Newline, "## " \o getLocalizedCompletionHistorySection(loc), Newline, Newline>>
  \o HeaderRow(getLocalizedCompletionHistoryHeaders(loc)) \o <<Newline>>
  \o SeparatorRow \o <<Newline>> \o newRow

\* the text appendCompletionHistory writes for the text it read
appendCompletionHistory_NewSection(content, loc, newRow) ==
  IF ~hasCompletionHistorySection(content)
  THEN TableSection(loc, newRow)
  ELSE smartAppendToTable(content, newRow)

appendCompletionHistory(content, loc, newRow) ==
  IF ~hasCompletionHistorySection(content)
  THEN content \o TableSection(loc, newRow)
  ELSE smartAppendToTable(content, newRow)

\* the frontmatter after markTaskComplete's processFrontMatter callback
processFrontMatter_KeepNextDue(fm, today) ==
  [fm EXCEPT !.last_done = today]

processFrontMatter(fm, today) ==
  [fm EXCEPT !.last_done = today,
             !.next_due = IF Falsy(fm.next_due) THEN fm.next_due ELSE Absent]

\* what markTaskComplete returns: { success: true, today } at its end,
\* { success: false, error } from its outer catch
MarkCompleteSuccess_Failure(today) ==
  [success |-> FALSE, today |-> Null]

MarkCompleteSuccess(today) ==
  [success |-> TRUE, today |-> today]

MarkCompleteFailure ==
  [success |-> FALSE, today |-> Null]

\* intervalDays of markTaskComplete: -1 without interval or unit
IntervalDaysOf(fm) ==
  IF fm.interval # 0 /\ fm.interval_unit # ""
  THEN calculateIntervalInDays(fm.interval, fm.interval_unit)
  ELSE -1

(***************************************************************************)
(* Environments and inputs                                                 *)
(***************************************************************************)
UTC    == [name |-> "UTC", std |-> 0, dst |-> FALSE]
Bogota == [name |-> "America/Bogota", std |-> -5, dst |-> FALSE]
Berlin == [name |-> "Europe/Berlin", std |-> 1, dst |-> TRUE]

TimeZones == {UTC, Bogota, Berlin}

FirstYear   == 2023
LastYear    == 2024
MaxInterval == 3
Window      == 2

Years == FirstYear..LastYear

\* last-done dates: first, middle and last day of every month
ValidDates ==
  UNION {{Str(y, m, d) : d \in {1, 15, DaysInMonth(y, m)}} : y \in Years, m \in 1..12}

MalformedDates == {StrYM(LastYear, 1), EmptyStr, Absent, NeverStr, JunkStr}

Units == {"days", "DAYS", "weeks", "month", "Months", "years", "fortnights"}

\* invalid, short and whole-year intervals
Intervals == (-1..MaxInterval) \cup {12}

\* dates within Window days of an anchor day
Around(y, m, d) ==
  {StrOfCivil(CivilFromDays(DaysFromCivil(y, m, d) + k)) : k \in (-Window)..Window}

\* due dates and "now" dates: mid-month, and around both DST transitions
NearDates == Around(2024, 1, 15) \cup Around(2024, 3, 31) \cup Around(2024, 10, 27)

ClockStart == DaysFromCivil(2024, 1, 15) * HoursPerDay + 12

DefaultTask ==
  [last_done |-> Str(2024, 1, 1), interval |-> 1, interval_unit |-> "days",
   complete_early_days |-> 7, has_early |-> FALSE, next_due |-> Absent]

NoOut ==
  [nextDue |-> Null, days |-> 0, today |-> FALSE]

NoStatus == [status |-> "", daysRemaining |-> 0, calculatedNextDue |-> Null]

NoProcessed == Spread(DefaultTask, NoStatus)

NoView == [statusClass |-> "", eligible |-> FALSE, canComplete |-> FALSE]

NoResult == [success |-> FALSE, today |-> Null]

\* no complete button has been rendered
NoCalls == <<>>

\* no filter query is involved
NoFilter == <<>>

\* no WidgetEventManager is involved
NoManager == <<>>

\* the completion history is not involved
NoHistory ==
  /\ note = <<>>
  /\ startNote = <<>>
  /\ username = "-"
  /\ completions = 0
  /\ appends = 0
  /\ lastRead = <<>>
  /\ lastRow = <<>>
  /\ result = NoResult
  /\ calls = NoCalls
  /\ filt = NoFilter
  /\ wem = NoManager

(***************************************************************************)
(* SpecDate: the three DateUtils functions applied to drawn inputs         *)
(***************************************************************************)
InitDate ==
  /\ tz \in TimeZones
  /\ locale = "en"
  /\ clock = ClockStart
  /\ out = NoOut
  /\ processed = NoProcessed
  /\ view = NoView
  /\ NoHistory
  /\ pc = "start"
  /\ \/ /\ task \in {[DefaultTask EXCEPT !.last_done = ld, !.interval = n,
                                          !.interval_unit = u] :
                        ld \in ValidDates \cup MalformedDates, n \in Intervals, u \in Units}
        /\ due = Null
        /\ now = Null
     \/ /\ task = DefaultTask
        /\ due \in NearDates \cup {EmptyStr, Null, JunkStr}
        /\ now \in NearDates \cup {Null, JunkStr}

CalculateNextDueDate ==
  /\ pc = "start"
  /\ out' = [out EXCEPT !.nextDue =
               calculateNextDueDate(tz, task.last_done, task.interval, task.interval_unit)]
  /\ pc' = "nextDue"
  /\ UNCHANGED <<tz, locale, task, now, due, clock, statusVars, histVars>>

CalculateDaysRemaining ==
  /\ pc = "start"
  /\ out' = [out EXCEPT !.days = calculateDaysRemaining(tz, due, now, clock)]
  /\ pc' = "days"
  /\ UNCHANGED <<tz, locale, task, now, due, clock, statusVars, histVars>>

IsToday ==
  /\ pc = "start"
  /\ out' = [out EXCEPT !.today = isToday(tz, due, now, clock)]
  /\ pc' = "today"
  /\ UNCHANGED <<tz, locale, task, now, due, clock, statusVars, histVars>>

NextDate == CalculateNextDueDate \/ CalculateDaysRemaining \/ IsToday

SpecDate == InitDate /\ [][NextDate]_vars

(***************************************************************************)
(* Claims about DateUtils (checked under SpecDate)                         *)
(***************************************************************************)
RecognizedUnit(u) ==
  ToLowerCase(u) \in {"day", "days", "week", "weeks", "month", "months", "year", "years"}

\* number of calendar days from date string b to date string a
CalendarDiff(a, b) == DaysFromCivil(a.y, a.m, a.d) - DaysFromCivil(b.y, b.m, b.d)

\* C1: for date-only strings the results of calculateNextDueDate,
\* calculateDaysRemaining and isToday are the same in every timezone
C1_TimezoneIndependent ==
  /\ (pc = "nextDue" /\ task.last_done.form = "ymd") =>
        \A z \in TimeZones :
          calculateNextDueDate(z, task.last_done, task.interval, task.interval_unit)
            = out.nextDue
  /\ (pc = "days" /\ due.form = "ymd" /\ now.form = "ymd") =>
        \A z \in TimeZones : calculateDaysRemaining(z, due, now, clock) = out.days
  /\ (pc = "today" /\ due.form = "ymd" /\ now.form = "ymd") =>
        \A z \in TimeZones : isToday(z, due, now, clock) = out.today

\* C2: with unit month(s) and n >= 1 the result lies in the month n months
\* after the last-done month and its day is min(d, length of that month)
C2_MonthClamp ==
  (/\ pc = "nextDue"
   /\ task.last_done.form = "ymd"
   /\ task.interval >= 1
   /\ ToLowerCase(task.interval_unit) \in {"month", "months"}) =>
    LET idx == (task.last_done.m - 1) + task.interval
        ty  == task.last_done.y + idx \div 12
        tm  == (idx % 12) + 1
        dim == DaysInMonth(ty, tm)
    IN  /\ out.nextDue.form = "ymd"
        /\ out.nextDue.y = ty
        /\ out.nextDue.m = tm
        /\ out.nextDue.d = (IF task.last_done.d < dim THEN task.last_done.d ELSE dim)

\* C7: calculateDaysRemaining(due, now) is the signed number of calendar
\* days from now to due, and -9999 when due is empty or a date is unparsable
C7_DaysRemaining ==
  pc = "days" =>
    LET today == IF Falsy(now) THEN TodayISO(clock) ELSE now
    IN  IF Falsy(due) \/ due.form # "ymd" \/ today.form # "ymd"
        THEN out.days = NeverDays
        ELSE out.days = CalendarDiff(due, today)

\* C8: calculateNextDueDate returns null when lastDone is empty or no
\* YYYY-MM-DD date, the interval is <= 0 or the unit is unknown, and a
\* zero-padded YYYY-MM-DD string in every other case
C8_NullOrDateString ==
  pc = "nextDue" =>
    IF \/ Falsy(task.last_done)
       \/ task.last_done.form # "ymd"
       \/ task.interval <= 0
       \/ ~RecognizedUnit(task.interval_unit)
    THEN out.nextDue = Null
    ELSE out.nextDue.form = "ymd" /\ Len(out.nextDue.text) = 10

(***************************************************************************)
(* SpecStatus: a task is processed and shown by the views                  *)
(***************************************************************************)
MaxAge            == 15
MaxStatusInterval == 2

Locales == {"en", "de"}

\* the UTC calendar date k days before the clock's
DaysAgo(k) == StrOfCivil(CivilFromDays(clock \div HoursPerDay - k))

StatusUnits == {"days", "weeks", "Months", "years", "fortnights"}

EarlyDays == {[has |-> FALSE, n |-> 0], [has |-> TRUE, n |-> -1], [has |-> TRUE, n |-> 0],
              [has |-> TRUE, n |-> 3], [has |-> TRUE, n |-> 10]}

InitStatus ==
  /\ tz \in TimeZones
  /\ locale \in Locales
  /\ clock = ClockStart
  /\ now \in {Absent, DaysAgo(5)}
  /\ due = Null
  /\ out = NoOut
  /\ processed = NoProcessed
  /\ view = NoView
  /\ NoHistory
  /\ pc = "start"
  /\ task \in {[last_done |-> ld, interval |-> n, interval_unit |-> u,
                 complete_early_days |-> e.n, has_early |-> e.has] :
                  ld \in {DaysAgo(k) : k \in 0..MaxAge} \cup {Absent, EmptyStr, NeverStr, JunkStr},
                  n \in 0..MaxStatusInterval, u \in StatusUnits, e \in EarlyDays}

\* TaskProcessor.processTask(task, now)
ProcessTask ==
  /\ pc = "start"
  /\ processed' = processTask(tz, locale, task, now, clock)
  /\ pc' = "processed"
  /\ UNCHANGED <<tz, locale, task, now, clock, dateVars, view, histVars>>

\* UpkeepStatusView: TaskStyling.getStatusClass(task)
GetStatusClass ==
  /\ pc = "processed"
  /\ view' = [view EXCEPT !.statusClass = getStatusClass(processed, clock)]
  /\ pc' = "class"
  /\ UNCHANGED <<tz, locale, task, now, clock, dateVars, processed, histVars>>

\* UpkeepStatusView: TaskStyling.isEligibleForCompletion(task, this.now)
IsEligibleForCompletion ==
  /\ pc = "processed"
  /\ view' = [view EXCEPT !.eligible =
                 isEligibleForCompletion(processed, TodayISO(clock), clock)]
  /\ pc' = "eligible"
  /\ UNCHANGED <<tz, locale, task, now, clock, dateVars, processed, histVars>>

\* UpkeepTableView.createTaskNameCell(row, task)
CreateTaskNameCell ==
  /\ pc = "processed"
  /\ view' = [view EXCEPT !.canComplete = canComplete(processed, TodayISO(clock))]
  /\ pc' = "cell"
  /\ UNCHANGED <<tz, locale, task, now, clock, dateVars, processed, histVars>>

NextStatus ==
  ProcessTask \/ GetStatusClass \/ IsEligibleForCompletion \/ CreateTaskNameCell

SpecStatus == InitStatus /\ [][NextStatus]_vars

(***************************************************************************)
(* Claims about the classification (checked under SpecStatus)              *)
(***************************************************************************)
Processed == pc \in {"processed", "class", "eligible", "cell"}

\* the category the tiered rule gives to a number of days remaining
Tier(daysRemaining, completeEarlyDays) ==
  IF daysRemaining < 0 THEN "Overdue"
  ELSE IF daysRemaining = 0 THEN "DueToday"
  ELSE IF daysRemaining <= Max(completeEarlyDays, 7) THEN "DueSoon"
  ELSE "UpToDate"

CategoryOfStatus(status) ==
  IF status = getLocalizedOverdue THEN "Overdue"
  ELSE IF status = getLocalizedUpToDate(locale) THEN "UpToDate"
  ELSE "none"

CategoryOfClass(statusClass) ==
  CASE statusClass = "recurring-upkeep-never-completed" -> "NeverCompleted"
    [] statusClass = "recurring-upkeep-overdue"         -> "Overdue"
    [] statusClass = "recurring-upkeep-due-today"       -> "DueToday"
    [] statusClass = "recurring-upkeep-due-soon"        -> "DueSoon"
    [] statusClass = "recurring-upkeep-up-to-date"      -> "UpToDate"
    [] OTHER                                            -> "none"

\* the early-completion threshold E of a task: 7 when complete_early_days
\* is absent, 0 when it is negative, complete_early_days otherwise
Threshold(t) ==
  IF ~t.has_early THEN 7 ELSE IF t.complete_early_days < 0 THEN 0 ELSE t.complete_early_days

\* C3: a task whose last_done is a valid date other than today is Overdue
\* iff daysRemaining < 0, DueToday iff daysRemaining = 0, DueSoon iff
\* 0 < daysRemaining <= max(completeEarlyDays, 7), and UpToDate otherwise,
\* in the status of determineTaskStatus and in the status class of TaskStyling
C3_TieredStatus ==
  /\ (Processed /\ task.last_done.form = "ymd"
        /\ task.last_done # TodayString(now, clock)) =>
       CategoryOfStatus(processed.status) = Tier(processed.daysRemaining, Threshold(task))
  /\ (pc = "class" /\ task.last_done.form = "ymd" /\ task.last_done # TodayISO(clock)) =>
       CategoryOfClass(view.statusClass) = Tier(processed.daysRemaining, Threshold(task))

\* C4: a task whose last_done is the calendar day of now is UpToDate and
\* its daysRemaining is the interval in days (x1 days, x7 weeks, x30
\* months, x365 years), whatever complete_early_days and the next due date;
\* the status view, whose today is the clock's date, styles it up to date
C4_CompletedToday ==
  (Processed /\ task.last_done.form = "ymd"
     /\ task.last_done = TodayString(now, clock)) =>
    /\ processed.status = getLocalizedUpToDate(locale)
    /\ (pc = "class" /\ task.last_done = TodayISO(clock)) =>
         view.statusClass = "recurring-upkeep-up-to-date"
    /\ processed.daysRemaining =
         task.interval *
           (CASE ToLowerCase(task.interval_unit) \in {"day", "days"}     -> 1
              [] ToLowerCase(task.interval_unit) \in {"week", "weeks"}   -> 7
              [] ToLowerCase(task.interval_unit) \in {"month", "months"} -> 30
              [] ToLowerCase(task.interval_unit) \in {"year", "years"}   -> 365
              [] OTHER -> 1)

\* C4 witness: completed today with a two-week interval, a custom "now" and
\* an early-completion window: 14 days remain, the next due date is set
C4_Witness ==
  /\ pc = "processed"
  /\ now.form = "ymd"
  /\ task.last_done = now
  /\ task.interval = 2
  /\ task.interval_unit = "weeks"
  /\ task.has_early /\ task.complete_early_days = 10
  /\ processed.daysRemaining = 14
  /\ processed.calculatedNextDue.form = "ymd"

\* C5: a task whose last_done is absent, empty or "never" has
\* daysRemaining -9999 and no calculated next due date, and the views offer
\* it for completion, for every interval, unit and now
C5_NeverCompleted ==
  (Processed /\ (task.last_done.form \in {"absent", "empty", "never"})) =>
    /\ processed.daysRemaining = -9999
    /\ processed.calculatedNextDue = Null
    /\ (pc = "eligible" => view.eligible)
    /\ (pc = "cell" => view.canComplete)

\* C5 witness: the table view offers a task with last_done "never"
C5_Witness ==
  /\ pc = "cell"
  /\ task.last_done = NeverStr
  /\ task.interval_unit = "Months"
  /\ view.canComplete
  /\ processed.daysRemaining = -9999

\* C6: a task completed before today is eligible for completion iff
\* daysRemaining <= E, E being 7 without complete_early_days, 0 for a
\* negative one and complete_early_days otherwise
C6_EligibleWithinWindow ==
  (task.last_done.form = "ymd" /\ task.last_done # TodayISO(clock)) =>
    /\ (pc = "eligible" =>
          (view.eligible <=> processed.daysRemaining <= Threshold(task)))
    /\ (pc = "cell" =>
          (view.canComplete <=> processed.daysRemaining <= Threshold(task)))

(***************************************************************************)
(* SpecHist: tasks are completed, each completion adds a history row       *)
(***************************************************************************)
MaxCompletions == 3
MaxTicks       == 1
TickHours      == 14

Usernames == {"-", "alice"}

ExistingRow == TableRow("2024-01-01", "09:00", "-", "14", "alice")

ExistingSection ==
  <<"# Tires", Newline, Newline, "## Completion history", Newline, Newline>>
  \o HeaderRow(getLocalizedCompletionHistoryHeaders("en")) \o <<Newline>>
  \o SeparatorRow \o <<Newline>> \o ExistingRow

\* notes without and with a completion-history section, ending with no,
\* one or two newlines, or with text after the table
Notes ==
  { <<>>,
    <<"# Tires", Newline, "Check the pressure.">>,
    <<"# Tires", Newline, "Check the pressure.", Newline>>,
    ExistingSection,
    ExistingSection \o <<Newline>>,
    ExistingSection \o <<Newline, Newline>>,
    ExistingSection \o <<Newline, Newline, "Next: rotate the tires.", Newline>> }

HistTasks ==
  {[DefaultTask EXCEPT !.last_done = ld, !.interval = p.n, !.interval_unit = p.u] :
     ld \in {Absent, NeverStr, Str(2024, 1, 1)},
     p \in {[n |-> 2, u |-> "weeks"], [n |-> 0, u |-> "days"]}}

InitHist ==
  /\ tz \in TimeZones
  /\ locale \in Locales
  /\ clock = ClockStart
  /\ now = Absent
  /\ task \in HistTasks
  /\ due = Null
  /\ out = NoOut
  /\ processed = NoProcessed
  /\ view = NoView
  /\ pc = "start"
  /\ note \in Notes
  /\ startNote = note
  /\ username \in Usernames
  /\ completions = 0
  /\ appends = 0
  /\ lastRead = <<>>
  /\ lastRow = <<>>
  /\ result = NoResult
  /\ calls = NoCalls
  /\ filt = NoFilter
  /\ wem = NoManager

\* markTaskComplete(app, filePath): the file may be missing; the
\* frontmatter is updated; reading or writing the note for the history
\* may fail, which is caught
MarkTaskComplete ==
  /\ completions < MaxCompletions
  /\ \E fileFound \in BOOLEAN, historyWritten \in BOOLEAN :
       IF ~fileFound
       THEN /\ result' = MarkCompleteFailure
            /\ UNCHANGED <<task, note, completions, appends, lastRead, lastRow>>
       ELSE /\ task' = processFrontMatter(task, TodayISO(clock))
            /\ completions' = completions + 1
            /\ result' = MarkCompleteSuccess(TodayISO(clock))
            /\ IF historyWritten
               THEN /\ lastRead' = note
                    /\ lastRow' = NewRow(tz, clock, task.last_done, IntervalDaysOf(task),
                                          username)
                    /\ note' = appendCompletionHistory(note, locale, lastRow')
                    /\ appends' = appends + 1
               ELSE UNCHANGED <<note, appends, lastRead, lastRow>>
  /\ UNCHANGED <<tz, locale, now, clock, pc, dateVars, statusVars, startNote, username, filt, wem,
                 calls>>

\* I18nUtils.setLocale(locale)
SetLocale ==
  /\ \E l \in Locales \ {locale} : locale' = l
  /\ UNCHANGED <<tz, task, now, clock, pc, dateVars, statusVars, histVars>>

\* time passes
Tick ==
  /\ clock < ClockStart + MaxTicks * TickHours
  /\ clock' = clock + TickHours
  /\ UNCHANGED <<tz, locale, task, now, pc, dateVars, statusVars, histVars>>

NextHist == MarkTaskComplete \/ SetLocale \/ Tick

SpecHist == InitHist /\ [][NextHist]_vars

(***************************************************************************)
(* Claims about the completion history (checked under SpecHist)            *)
(***************************************************************************)
\* index of the first newline of a text that has one
FirstNewline(text) ==
  CHOOSE i \in 1..Len(text) :
    text[i] = Newline /\ \A j \in 1..(i - 1) : text[j] # Newline

\* the lines of a text: the pieces between its newlines
RECURSIVE Lines(_)
Lines(text) ==
  IF \A i \in 1..Len(text) : text[i] # Newline THEN <<text>>
  ELSE <<SubSeq(text, 1, FirstNewline(text) - 1)>>
       \o Lines(SubSeq(text, FirstNewline(text) + 1, Len(text)))

\* a line that is one table row of five columns: six separators, with one
\* cell between every two of them
FiveColumnRow(line) ==
  /\ Len(line) = 11
  /\ \A k \in 1..11 : (line[k] = "|") <=> (k % 2 = 1)

IsHeading(line) == Len(line) = 1 /\ line[1] \in completionHistorySections

IsHeaderRow(line) ==
  \E l \in Locales : line = HeaderRow(getLocalizedCompletionHistoryHeaders(l))

\* C9: smartAppendToTable(content, newRow) is content + newRow when
\* content ends with a newline and content + "\n" + newRow when it does not
C9_SmartAppend ==
  (appends > 0 /\ hasCompletionHistorySection(lastRead)) =>
    /\ SubSeq(note, 1, Len(lastRead)) = lastRead
    /\ SubSeq(note, Len(note) - Len(lastRow) + 1, Len(note)) = lastRow
    /\ IF lastRead[Len(lastRead)] = Newline
       THEN Len(note) = Len(lastRead) + Len(lastRow)
       ELSE /\ Len(note) = Len(lastRead) + 1 + Len(lastRow)
            /\ note[Len(lastRead) + 1] = Newline

\* C9 witness: a row was appended to a note that ended with a newline, and
\* directly follows that newline
C9_Witness ==
  /\ appends = 1
  /\ hasCompletionHistorySection(lastRead)
  /\ lastRead[Len(lastRead)] = Newline
  /\ note = lastRead \o lastRow
  /\ lastRow[2] = " 2024-01-15 "

\* C10: from a note without a completion-history section, after the
\* completion that creates the section and N that append to it, the note
\* ends with a blank line, the heading, a blank line, one header row, one
\* separator row and N+1 data rows, each a line of its own of five columns
C10_TableShape ==
  (~hasCompletionHistorySection(startNote) /\ appends > 0) =>
    LET before == Len(Lines(startNote))
        lines  == Lines(note)
    IN  /\ Len(lines) = before + 5 + appends
        /\ SubSeq(lines, 1, before) = Lines(startNote)
        /\ lines[before + 1] = <<>>
        /\ IsHeading(lines[before + 2])
        /\ lines[before + 3] = <<>>
        /\ IsHeaderRow(lines[before + 4])
        /\ lines[before + 5] = SeparatorRow
        /\ \A k \in 1..appends :
             /\ FiveColumnRow(lines[before + 5 + k])
             /\ ~IsHeaderRow(lines[before + 5 + k])
             /\ lines[before + 5 + k] # SeparatorRow

\* C10 witness: the section was created and two more rows were appended,
\* with the locale changed after the section was created
C10_Witness ==
  /\ ~hasCompletionHistorySection(startNote)
  /\ Len(startNote) > 0
  /\ appends = 3
  /\ \E i \in 1..Len(note) : note[i] = "## Completion history"
  /\ locale = "de"
  /\ Len(Lines(note)) = Len(Lines(startNote)) + 8

\* C11: on a note that has a completion-history section, the appended row
\* is a line of its own and the line before it is the previous table row:
\* no blank line between them, and the row not glued onto that line
C11_RowFollowsTable ==
  (appends > 0 /\ hasCompletionHistorySection(lastRead)) =>
    LET lines == Lines(note)
    IN  /\ Len(lines) > 1
        /\ lines[Len(lines)] = lastRow
        /\ FiveColumnRow(lines[Len(lines) - 1])

(***************************************************************************)
(* SpecComplete: the complete buttons of two widgets that show the same    *)
(* task; each click runs markTaskComplete step by step, one step per await *)
(***************************************************************************)
MaxClicks == 2

\* the button of the table view and the button of the status view
Buttons == {"table", "status"}

\* a button as CompleteButton.render creates it
NewButton ==
  [pc |-> "enabled", clicks |-> 0, today |-> Null, previousLastDone |-> Absent,
   intervalDays |-> -1, content |-> <<>>, fm |-> DefaultTask, reads |-> 0, writes |-> 0,
   historyFailed |-> FALSE, result |-> NoResult]

\* markTaskComplete has been called and has not returned
InFlight(b) == calls[b].pc \in {"started", "frontmatter", "read", "returning"}

\* overdue and never completed tasks: both views show their complete button
CompleteTasks ==
  {[DefaultTask EXCEPT !.last_done = ld, !.interval = 2, !.interval_unit = "weeks",
                       !.next_due = nd] :
     ld \in {Absent, Str(2024, 1, 1)}, nd \in {Absent, Str(2024, 1, 15)}}

InitComplete ==
  /\ tz \in TimeZones
  /\ locale \in Locales
  /\ clock = ClockStart
  /\ now = Absent
  /\ task \in CompleteTasks
  /\ due = Null
  /\ out = NoOut
  /\ processed = NoProcessed
  /\ view = NoView
  /\ pc = "start"
  /\ note \in Notes
  /\ startNote = note
  /\ username = "alice"
  /\ completions = 0
  /\ appends = 0
  /\ lastRead = <<>>
  /\ lastRow = <<>>
  /\ result = NoResult
  /\ calls = [b \in Buttons |-> NewButton]
  /\ filt = NoFilter
  /\ wem = NoManager

\* the click handler up to markTaskComplete's first await: the button is
\* disabled; a missing file ends the call in the outer catch
Click(b) ==
  /\ calls[b].pc = "enabled"
  /\ calls[b].clicks < MaxClicks
  /\ \E fileFound \in BOOLEAN :
       calls' = [calls EXCEPT ![b] =
                   [@ EXCEPT !.pc = IF fileFound THEN "started" ELSE "failed",
                             !.clicks = @ + 1,
                             !.today = TodayISO(clock),
                             !.reads = 0, !.writes = 0, !.historyFailed = FALSE,
                             !.result = MarkCompleteFailure]]
  /\ UNCHANGED <<tz, locale, task, now, clock, pc, dateVars, statusVars, note, startNote,
                 username, filt, wem, completions, appends, lastRead, lastRow, result>>

\* await app.fileManager.processFrontMatter(file, callback): the note's
\* frontmatter is read, changed by the callback and saved; a failure ends
\* the call in the outer catch
UpdateFrontMatter(b) ==
  /\ calls[b].pc = "started"
  /\ \E saved \in BOOLEAN :
       IF saved
       THEN /\ task' = processFrontMatter(task, calls[b].today)
            /\ calls' = [calls EXCEPT ![b] =
                           [@ EXCEPT !.pc = "frontmatter",
                                     !.previousLastDone = task.last_done,
                                     !.intervalDays = IntervalDaysOf(task),
                                     !.reads = @ + 1, !.writes = @ + 1]]
       ELSE /\ calls' = [calls EXCEPT ![b] = [@ EXCEPT !.pc = "failed"]]
            /\ UNCHANGED task
  /\ UNCHANGED <<tz, locale, now, clock, pc, dateVars, statusVars, note, startNote,
                 username, filt, wem, completions, appends, lastRead, lastRow, result>>

\* const content = await app.vault.read(file): the whole file, frontmatter
\* included; a failure is caught by markTaskComplete's inner catch
ReadNote(b) ==
  /\ calls[b].pc = "frontmatter"
  /\ \E readOk \in BOOLEAN :
       calls' = [calls EXCEPT ![b] =
                   IF readOk
                   THEN [@ EXCEPT !.pc = "read", !.content = note, !.fm = task,
                                  !.reads = @ + 1]
                   ELSE [@ EXCEPT !.pc = "returning", !.historyFailed = TRUE]]
  /\ UNCHANGED <<tz, locale, task, now, clock, pc, dateVars, statusVars, note, startNote,
                 username, filt, wem, completions, appends, lastRead, lastRow, result>>

\* await app.vault.modify(file, newContent): the file becomes what was
\* read plus the new row; a failure is caught by the inner catch
WriteNote(b) ==
  /\ calls[b].pc = "read"
  /\ \E written \in BOOLEAN :
       IF written
       THEN /\ lastRead' = calls[b].content
            /\ lastRow' = NewRow(tz, clock, calls[b].previousLastDone,
                                 calls[b].intervalDays, username)
            /\ note' = appendCompletionHistory(calls[b].content, locale, lastRow')
            /\ task' = calls[b].fm
            /\ appends' = appends + 1
            /\ calls' = [calls EXCEPT ![b] =
                           [@ EXCEPT !.pc = "returning", !.writes = @ + 1]]
       ELSE /\ calls' = [calls EXCEPT ![b] =
                           [@ EXCEPT !.pc = "returning", !.historyFailed = TRUE]]
            /\ UNCHANGED <<task, note, appends, lastRead, lastRow>>
  /\ UNCHANGED <<tz, locale, now, clock, pc, dateVars, statusVars, startNote, username, filt, wem,
                 completions, result>>

\* return { success: true, today }; the click handler removes the button
Return(b) ==
  /\ calls[b].pc = "returning"
  /\ result' = MarkCompleteSuccess(calls[b].today)
  /\ calls' = [calls EXCEPT ![b] = [@ EXCEPT !.pc = "removed", !.result = result']]
  /\ completions' = completions + 1
  /\ UNCHANGED <<tz, locale, task, now, clock, pc, dateVars, statusVars, note, startNote,
                 username, filt, wem, appends, lastRead, lastRow>>

\* the outer catch returned { success: false }: the click handler shows the
\* error and enables the button again after three seconds
ReEnable(b) ==
  /\ calls[b].pc = "failed"
  /\ result' = MarkCompleteFailure
  /\ calls' = [calls EXCEPT ![b] = [@ EXCEPT !.pc = "enabled"]]
  /\ UNCHANGED <<tz, locale, task, now, clock, pc, dateVars, statusVars, note, startNote,
                 username, filt, wem, completions, appends, lastRead, lastRow>>

NextComplete ==
  \E b \in Buttons :
    \/ Click(b)
    \/ UpdateFrontMatter(b)
    \/ ReadNote(b)
    \/ WriteNote(b)
    \/ Return(b)
    \/ ReEnable(b)

SpecComplete == InitComplete /\ [][NextComplete]_vars

(***************************************************************************)
(* Claims about markTaskComplete's steps (checked under SpecComplete)      *)
(***************************************************************************)
\* C12: the step in which reading or writing the history fails leaves the
\* frontmatter as the call updated it (last_done = today, no next_due), and
\* the call then returns success = true with today's date
C12_HistoryFailureKept ==
  [][\A b \in Buttons :
       /\ (calls[b].pc \in {"frontmatter", "read"} /\ calls'[b].historyFailed) =>
            /\ task' = task
            /\ task'.last_done = calls[b].today
            /\ Falsy(task'.next_due)
       /\ (calls[b].pc = "returning" /\ calls[b].historyFailed
           /\ calls'[b].pc = "removed") =>
            calls'[b].result = [success |-> TRUE, today |-> TodayISO(clock)]]_vars

\* C12 witness: a call whose history update failed has returned success;
\* the frontmatter carries today's date and the note is as it was
C12_Witness ==
  \E b \in Buttons :
    /\ calls[b].pc = "removed"
    /\ calls[b].historyFailed
    /\ calls[b].result.success
    /\ calls[b].previousLastDone = Str(2024, 1, 1)
    /\ task.last_done = Str(2024, 1, 15)
    /\ Falsy(task.next_due)
    /\ note = startNote

\* C14: at most one markTaskComplete call is in flight for the file
C14_OneInFlight ==
  Cardinality({b \in Buttons : InFlight(b)}) <= 1

\* C15: one markTaskComplete call reads the note at most once and writes
\* the note at most once
C15_OneReadOneWrite ==
  \A b \in Buttons : calls[b].reads <= 1 /\ calls[b].writes <= 1

(***************************************************************************)
(* SpecRepeat: a task is processed, and processed again with the same      *)
(* arguments after the locale was changed or time has passed               *)
(***************************************************************************)
InitRepeat ==
  /\ InitStatus
  /\ ~Falsy(now)
  /\ ~task.has_early

\* a further TaskProcessor.processTask(task, now) with the same task and now
ProcessAgain ==
  /\ pc = "processed"
  /\ processed' = processTask(tz, locale, task, now, clock)
  /\ UNCHANGED <<tz, locale, task, now, clock, pc, dateVars, view, histVars>>

NextRepeat == ProcessTask \/ ProcessAgain \/ SetLocale \/ Tick

SpecRepeat == InitRepeat /\ [][NextRepeat]_vars

\* C13: a call of determineTaskStatus with the arguments of the previous
\* call returns what the previous call returned, whatever happened in
\* between, and leaves the task as it was
C13_SameInputsSameResult ==
  [][(pc = "processed" /\ pc' = "processed") =>
       (processed' = processed /\ task' = task)]_vars

(***************************************************************************)
(* FilterParser.  A query is a sequence of lines; a line is the sequence   *)
(* of parts its split at " OR " gives; a part is "key:value" or one word.  *)
(* The source file holds two revisions of the class: the first knows the   *)
(* statuses all, overdue and up-to-date, the second also due, due-soon and *)
(* never.  A filter field is undefined, a single value or an array.        *)
(***************************************************************************)
Part(k, v) == [key |-> k, value |-> v, colon |-> TRUE]
Word(w)    == [key |-> w, value |-> "", colon |-> FALSE]

Undefined == [kind |-> "undefined", values |-> <<>>]

EmptyFilter ==
  [status |-> Undefined, tag |-> Undefined, interval |-> Undefined, limit |-> 0,
   sort |-> ""]

Range(seq) == {seq[i] : i \in 1..Len(seq)}

\* the truthiness of a filter field in "if (filter.status)"
Truthy(field) ==
  \/ field.kind = "array"
  \/ field.kind = "single" /\ field.values[1] # ""

isValidStatus(rev, value) ==
  IF rev = 1 THEN value \in {"all", "overdue", "up-to-date"}
  ELSE value \in {"all", "due", "overdue", "due-soon", "up-to-date", "never"}

isValidSort(value) == value \in {"due-date", "status", "name"}

\* parseInt(value, 10) of the limit texts that occur; 0 stands for NaN
ParseInt(value) ==
  IF value = "1" THEN 1 ELSE IF value = "2" THEN 2 ELSE IF value = "3" THEN 3
  ELSE IF value = "2 tasks" THEN 2 ELSE IF value = "-1" THEN -1 ELSE 0

\* key.toLowerCase() and part.toLowerCase() of the words that occur
LowerWord(w) ==
  IF w = "Status" THEN "status" ELSE IF w = "TAG" THEN "tag"
  ELSE IF w = "Overdue" THEN "overdue" ELSE IF w = "Weeks" THEN "weeks"
  ELSE ToLowerCase(w)

\* addStatusToFilter, addTagToFilter, addIntervalToFilter: the field after
\* a value was added
addToFilterArray_Replace(field, value) ==
  [kind |-> "single", values |-> <<value>>]

addToFilterArray(field, value) ==
  IF field.kind = "undefined" THEN [kind |-> "single", values |-> <<value>>]
  ELSE IF field.kind = "array"
       THEN IF value \in Range(field.values) THEN field
            ELSE [field EXCEPT !.values = Append(@, value)]
  ELSE IF field.values[1] # value
       THEN [kind |-> "array", values |-> <<field.values[1], value>>]
  ELSE field

addFilterValue(rev, key, value, filter) ==
  IF key = "status"
  THEN IF isValidStatus(rev, value)
       THEN [filter EXCEPT !.status = addToFilterArray(@, value)]
       ELSE filter
  ELSE IF key = "tag" THEN [filter EXCEPT !.tag = addToFilterArray(@, value)]
  ELSE IF key = "interval" THEN [filter EXCEPT !.interval = addToFilterArray(@, value)]
  ELSE IF key = "limit"
       THEN IF ParseInt(value) > 0 THEN [filter EXCEPT !.limit = ParseInt(value)]
            ELSE filter
  ELSE IF key = "sort"
       THEN IF isValidSort(value) THEN [filter EXCEPT !.sort = value] ELSE filter
  ELSE filter

addSimpleStatus(rev, status, filter) ==
  IF isValidStatus(rev, status)
  THEN [filter EXCEPT !.status = addToFilterArray(@, status)]
  ELSE filter

\* the OR branch of parseKeyValueLine: parts without a colon are skipped
RECURSIVE parseKeyValueParts(_, _, _)
parseKeyValueParts(rev, parts, filter) ==
  IF parts = <<>> THEN filter
  ELSE parseKeyValueParts(rev, Tail(parts),
         IF Head(parts).colon
         THEN addFilterValue(rev, LowerWord(Head(parts).key), Head(parts).value, filter)
         ELSE filter)

parseKeyValueLine(rev, line, filter) ==
  IF Len(line) > 1 THEN parseKeyValueParts(rev, line, filter)
  ELSE addFilterValue(rev, LowerWord(line[1].key), line[1].value, filter)

RECURSIVE parseSimpleStatusLine(_, _, _)
parseSimpleStatusLine(rev, line, filter) ==
  IF line = <<>> THEN filter
  ELSE parseSimpleStatusLine(rev, Tail(line),
                             addSimpleStatus(rev, LowerWord(Head(line).key), filter))

RECURSIVE parseLines(_, _, _)
parseLines(rev, lines, filter) ==
  IF lines = <<>> THEN filter
  ELSE parseLines(rev, Tail(lines),
         IF \E i \in 1..Len(Head(lines)) : Head(lines)[i].colon
         THEN parseKeyValueLine(rev, Head(lines), filter)
         ELSE parseSimpleStatusLine(rev, Head(lines), filter))

\* FilterParser.parse(query)
parse(rev, query) == parseLines(rev, query, EmptyFilter)

\* String.prototype.includes on the tags, units and filter values that occur
Substrings ==
  {<<"bicycle", "bi">>, <<"bicycle", "cycle">>, <<"bike-shed", "bi">>,
   <<"days", "day">>, <<"weeks", "week">>, <<"months", "month">>,
   <<"weeks", "ee">>}

Includes(text, sub) == sub = "" \/ text = sub \/ <<text, sub>> \in Substrings

\* the switch of the status filter
StatusMatches(rev, status, t) ==
  IF rev = 1
  THEN IF status = "overdue" THEN t.daysRemaining < 0
       ELSE IF status = "up-to-date" THEN t.daysRemaining >= 0
       ELSE FALSE
  ELSE IF status = "due" THEN t.daysRemaining = 0
       ELSE IF status = "overdue" THEN t.daysRemaining < 0
       ELSE IF status = "due-soon" THEN t.daysRemaining > 0 /\ t.daysRemaining <= 7
       ELSE IF status = "up-to-date" THEN t.daysRemaining > 7
       ELSE IF status = "never" THEN t.daysRemaining = NeverCompletedDays
       ELSE FALSE

StatusFilter(rev, filter, tasks) ==
  IF Truthy(filter.status) /\ "all" \notin Range(filter.status.values)
  THEN SelectSeq(tasks, LAMBDA t :
         \E st \in Range(filter.status.values) : StatusMatches(rev, st, t))
  ELSE tasks

TagFilter(filter, tasks) ==
  IF Truthy(filter.tag)
  THEN SelectSeq(tasks, LAMBDA t :
         \E tagFilter \in Range(filter.tag.values) :
           \E tag \in t.tags : Includes(tag, tagFilter))
  ELSE tasks

IntervalFilter(filter, tasks) ==
  IF Truthy(filter.interval)
  THEN SelectSeq(tasks, LAMBDA t :
         \E intervalFilter \in Range(filter.interval.values) :
           Includes(ToLowerCase(t.interval_unit), LowerWord(intervalFilter)))
  ELSE tasks

\* a.file.name.localeCompare(b.file.name) orders the names that occur as
\* this sequence lists them
FileNames == <<"Bike", "Car", "Oven", "Roof", "Sink">>

NameOrder(name) == CHOOSE i \in 1..Len(FileNames) : FileNames[i] = name

\* the order number the status sort gives a task
StatusOrder(rev, t) ==
  IF rev = 1 THEN (IF t.daysRemaining < 0 THEN 0 ELSE 1)
  ELSE IF t.status = getLocalizedOverdue THEN 0
  ELSE 3

\* the due-date comparator: tasks without a next due date first, then by
\* the time value of new Date(calculatedNextDue)
DueDateOrder(t) ==
  IF Falsy(t.calculatedNextDue) THEN -1
  ELSE NewDateFromString(t.calculatedNextDue).t

SortOrder(rev, sort, t) ==
  IF sort = "name" THEN NameOrder(t.name)
  ELSE IF sort = "status" THEN StatusOrder(rev, t)
  ELSE DueDateOrder(t)

\* Array.prototype.sort is stable: an element goes behind the elements
\* that do not compare greater
RECURSIVE InsertInOrder(_, _, _, _)
InsertInOrder(rev, sort, sorted, t) ==
  IF sorted = <<>> THEN <<t>>
  ELSE IF SortOrder(rev, sort, sorted[Len(sorted)]) <= SortOrder(rev, sort, t)
       THEN Append(sorted, t)
  ELSE Append(InsertInOrder(rev, sort, SubSeq(sorted, 1, Len(sorted) - 1), t),
              sorted[Len(sorted)])

RECURSIVE SortTasks(_, _, _)
SortTasks(rev, sort, tasks) ==
  IF tasks = <<>> THEN <<>>
  ELSE InsertInOrder(rev, sort, SortTasks(rev, sort, SubSeq(tasks, 1, Len(tasks) - 1)),
                     tasks[Len(tasks)])

Sorted(rev, filter, tasks) ==
  IF filter.sort # "" THEN SortTasks(rev, filter.sort, tasks) ELSE tasks

\* filteredTasks.slice(0, filter.limit)
Limited(filter, tasks) ==
  IF filter.limit > 0 /\ filter.limit < Len(tasks) THEN SubSeq(tasks, 1, filter.limit)
  ELSE tasks

\* FilterParser.apply(tasks, filter)
apply_LimitFirst(rev, tasks, filter) ==
  Sorted(rev, filter,
    IntervalFilter(filter, TagFilter(filter, StatusFilter(rev, filter,
      Limited(filter, tasks)))))

apply(rev, tasks, filter) ==
  Limited(filter,
    Sorted(rev, filter,
      IntervalFilter(filter, TagFilter(filter, StatusFilter(rev, filter, tasks)))))

\* the caller's array after apply: apply works on the copy [...tasks]
tasksAfterApply(rev, tasks, filter) == tasks

(***************************************************************************)
(* SpecFilter: a query is parsed and the filter applied to a task list     *)
(***************************************************************************)
MaxListLen == 3

Revisions == {1, 2}

\* a processed task as the views hand it to FilterParser.apply
FilterTask(loc, clk, name, tags, lastDone, interval, unit) ==
  [name |-> name, tags |-> tags]
  @@ processTask(UTC, loc,
                 [DefaultTask EXCEPT !.last_done = lastDone, !.interval = interval,
                                     !.interval_unit = unit],
                 Absent, clk)

\* never completed; 3 days late; due today; due in 4 days; due in a month
TaskPool(loc, clk) ==
  { FilterTask(loc, clk, "Bike", {"bicycle"}, Absent, 1, "weeks"),
    FilterTask(loc, clk, "Car", {"garage"}, StrOfCivil(CivilFromDays(clk \div 24 - 10)),
               1, "weeks"),
    FilterTask(loc, clk, "Oven", {}, StrOfCivil(CivilFromDays(clk \div 24 - 7)),
               7, "days"),
    FilterTask(loc, clk, "Sink", {"home", "bike-shed"},
               StrOfCivil(CivilFromDays(clk \div 24 - 3)), 1, "weeks"),
    FilterTask(loc, clk, "Roof", {"home"}, StrOfCivil(CivilFromDays(clk \div 24 - 1)),
               1, "Months") }

\* the lists of distinct tasks of a length
ListsOf(pool, n) ==
  {l \in [1..n -> pool] : \A i, j \in 1..n : l[i] = l[j] => i = j}

TaskLists(loc, clk) ==
  {<<>>} \cup ListsOf(TaskPool(loc, clk), 1) \cup ListsOf(TaskPool(loc, clk), MaxListLen)

StatusWords ==
  {"never-completed", "overdue", "due-today", "due-soon", "up-to-date", "due", "never",
   "all", "Overdue"}

\* lines of one key: one value, or several joined by OR
StatusLines ==
  {<<Part("status", v)>> : v \in StatusWords}
  \cup {<<Part("status", v), Part("status", w)>> :
          v \in {"overdue", "due-soon"}, w \in {"overdue", "up-to-date", "never", "soon"}}
  \cup {<<Part("status", "overdue"), Part("Status", "due"), Part("status", "overdue")>>,
        <<Part("status", "overdue"), Part("status", "all")>>,
        <<Part("status", "due"), Word("overdue"), Part("status", "never")>>}

WordLines ==
  {<<Word(v)>> : v \in {"overdue", "Overdue", "due-soon", "soon"}}
  \cup {<<Word("overdue"), Word("up-to-date")>>}

TagLines ==
  {<<Part("tag", v)>> : v \in {"home", "bi", "boat"}}
  \cup {<<Part("tag", "garage"), Part("TAG", "cycle")>>,
        <<Part("tag", "home"), Part("tag", "bi"), Part("tag", "home")>>}

IntervalLines ==
  {<<Part("interval", v)>> : v \in {"week", "months"}}
  \cup {<<Part("interval", "day"), Part("interval", "Weeks")>>,
        <<Part("interval", "month"), Part("interval", "day"), Part("interval", "month")>>}

SortLines == {<<Part("sort", v)>> : v \in {"name", "status", "due-date", "random"}}

LimitLines == {<<Part("limit", v)>> : v \in {"1", "2", "2 tasks", "-1", "none"}}

\* queries of one line, and queries that narrow, sort and limit
Queries ==
  {<<l>> : l \in StatusLines \cup WordLines \cup TagLines \cup IntervalLines}
  \cup {st \o tg \o iv \o so \o li :
          st \in {<<>>, <<<<Part("status", "up-to-date")>>>>},
          tg \in {<<>>, <<<<Part("tag", "home"), Part("tag", "bi")>>>>},
          iv \in {<<>>, <<<<Part("interval", "week")>>>>},
          so \in {<<>>} \cup {<<l>> : l \in SortLines},
          li \in {<<>>} \cup {<<l>> : l \in LimitLines}}

InitFilter ==
  /\ tz = UTC
  /\ locale \in Locales
  /\ clock = ClockStart
  /\ now = Absent
  /\ task = DefaultTask
  /\ due = Null
  /\ out = NoOut
  /\ processed = NoProcessed
  /\ view = NoView
  /\ pc = "start"
  /\ note = <<>>
  /\ startNote = <<>>
  /\ username = "-"
  /\ completions = 0
  /\ appends = 0
  /\ lastRead = <<>>
  /\ lastRow = <<>>
  /\ result = NoResult
  /\ calls = NoCalls
  /\ wem = NoManager
  /\ \E rev \in Revisions, query \in Queries, tasks \in TaskLists(locale, clock) :
       filt = [rev |-> rev, query |-> query, filter |-> EmptyFilter, given |-> tasks,
               tasks |-> tasks, result |-> <<>>]

\* const filter = FilterParser.parse(query)
Parse ==
  /\ pc = "start"
  /\ filt # NoFilter
  /\ filt' = [filt EXCEPT !.filter = parse(filt.rev, filt.query)]
  /\ pc' = "parsed"
  /\ UNCHANGED <<tz, locale, task, now, clock, dateVars, statusVars, note, startNote,
                 username, completions, appends, lastRead, lastRow, result, calls, wem>>

\* FilterParser.apply(tasks, filter)
Apply ==
  /\ pc = "parsed"
  /\ filt' = [filt EXCEPT !.result = apply(filt.rev, filt.tasks, filt.filter),
                          !.tasks = tasksAfterApply(filt.rev, filt.tasks, filt.filter)]
  /\ pc' = "applied"
  /\ UNCHANGED <<tz, locale, task, now, clock, dateVars, statusVars, note, startNote,
                 username, completions, appends, lastRead, lastRow, result, calls, wem>>

NextFilter == Parse \/ Apply

SpecFilter == InitFilter /\ [][NextFilter]_vars

(***************************************************************************)
(* Claims about the filter language (checked under SpecFilter)             *)
(***************************************************************************)
\* the status keywords the README documents
DocumentedStatuses ==
  {"never-completed", "overdue", "due-today", "due-soon", "up-to-date"}

\* the documented category of a processed task
CategoryOfTask(t) ==
  IF t.daysRemaining = NeverCompletedDays THEN "never-completed"
  ELSE IF t.daysRemaining < 0 THEN "overdue"
  ELSE IF t.daysRemaining = 0 THEN "due-today"
  ELSE IF t.daysRemaining <= DueSoonDays THEN "due-soon"
  ELSE "up-to-date"

\* the query is the one line "status:<keyword>"
StatusQuery(keyword) == filt.query = <<<<Part("status", keyword)>>>>

\* C16: a query "status:<keyword>" with a documented keyword is accepted
\* by parse, and apply returns exactly the tasks of that category
C16_DocumentedKeywords ==
  \A kw \in DocumentedStatuses :
    (pc = "applied" /\ StatusQuery(kw)) =>
      /\ filt.filter.status = [kind |-> "single", values |-> <<kw>>]
      /\ filt.result = SelectSeq(filt.given, LAMBDA t : CategoryOfTask(t) = kw)

\* the line is "k:v1 OR k:v2 OR ..." for the key k
OrLineOf(k) ==
  /\ Len(filt.query) = 1
  /\ Len(filt.query[1]) >= 2
  /\ \A i \in 1..Len(filt.query[1]) :
       filt.query[1][i].colon /\ LowerWord(filt.query[1][i].key) = k

\* the valid values of the query's line
ValidValues(k) ==
  {filt.query[1][i].value : i \in 1..Len(filt.query[1])}
  \ (IF k = "status" THEN {v \in StatusWords \cup {"soon"} : ~isValidStatus(filt.rev, v)}
     ELSE {})

\* a task matches a value of a key
MatchesValue(k, v, t) ==
  IF k = "status" THEN v = "all" \/ StatusMatches(filt.rev, v, t)
  ELSE IF k = "tag" THEN \E tag \in t.tags : Includes(tag, v)
  ELSE Includes(ToLowerCase(t.interval_unit), LowerWord(v))

FieldOf(filter, k) ==
  IF k = "status" THEN filter.status ELSE IF k = "tag" THEN filter.tag
  ELSE filter.interval

Satisfies(f, t) ==
  /\ (Truthy(f.status) /\ "all" \notin Range(f.status.values)) =>
       \E v \in Range(f.status.values) : StatusMatches(filt.rev, v, t)
  /\ Truthy(f.tag) => \E v \in Range(f.tag.values) : MatchesValue("tag", v, t)
  /\ Truthy(f.interval) =>
       \E v \in Range(f.interval.values) : MatchesValue("interval", v, t)

\* position of a task in the given list
PositionOf(t) == CHOOSE i \in 1..Len(filt.given) : filt.given[i] = t

\* the rank apply's order gives a task: its sort order when a sort key is
\* given, its position in the input otherwise
RankOf(t) ==
  IF filt.filter.sort # "" THEN SortOrder(filt.rev, filt.filter.sort, t)
  ELSE PositionOf(t)

MinOf(a, b) == IF a < b THEN a ELSE b

\* C18: the result holds min(limit, n) of the n input tasks that satisfy
\* every filter, in sorted order (input order without a sort key), none
\* of them ranked behind a satisfying task that was left out; the input
\* list is as it was
C18_NarrowSortLimit ==
  pc = "applied" =>
    LET kept == {t \in Range(filt.given) : Satisfies(filt.filter, t)}
    IN  /\ Range(filt.result) \subseteq kept
        /\ Cardinality(Range(filt.result)) = Len(filt.result)
        /\ Len(filt.result) = IF filt.filter.limit > 0
                              THEN MinOf(filt.filter.limit, Cardinality(kept))
                              ELSE Cardinality(kept)
        /\ \A i, j \in 1..Len(filt.result) :
             i < j => RankOf(filt.result[i]) <= RankOf(filt.result[j])
        /\ \A t \in kept \ Range(filt.result) :
             \A i \in 1..Len(filt.result) : RankOf(filt.result[i]) <= RankOf(t)
        /\ filt.tasks = filt.given

\* C18 witness: three tasks pass the status filter, are sorted by name and
\* cut to two, so that the first task given is left out
C18_Witness ==
  /\ pc = "applied"
  /\ filt.filter.limit = 2
  /\ filt.filter.sort = "name"
  /\ Truthy(filt.filter.status)
  /\ ~Truthy(filt.filter.tag)
  /\ Len(filt.given) = 3
  /\ Len(filt.result) = 2
  /\ \A i \in 1..3 : Satisfies(filt.filter, filt.given[i])
  /\ filt.given[1] \notin Range(filt.result)
  /\ filt.result[1] = filt.given[3]

\* C19: status:overdue returns exactly the tasks whose status text is the
\* overdue text, status:up-to-date exactly those with the up-to-date text
C19_FilterAgreesWithStatus ==
  /\ (pc = "applied" /\ StatusQuery("overdue")) =>
       filt.result = SelectSeq(filt.given, LAMBDA t : t.status = getLocalizedOverdue)
  /\ (pc = "applied" /\ StatusQuery("up-to-date")) =>
       filt.result = SelectSeq(filt.given,
                               LAMBDA t : t.status = getLocalizedUpToDate(locale))

(***************************************************************************)
(* A further claim about the classification (checked under SpecStatus)     *)
(***************************************************************************)
\* C20: a task with a valid last_done and an interval <= 0 or an
\* unrecognized unit is processed to calculatedNextDue = null and
\* daysRemaining = -9999, whatever now is
C20_NullSchedule ==
  (/\ Processed
   /\ task.last_done.form = "ymd"
   /\ (task.interval <= 0 \/ ~RecognizedUnit(task.interval_unit))) =>
    /\ processed.calculatedNextDue = Null
    /\ processed.daysRemaining = NeverCompletedDays

(***************************************************************************)
(* SpecView: a status view is constructed, the task is completed, the view *)
(* renders the task again, time passes                                     *)
(***************************************************************************)
ViewTasks ==
  {[DefaultTask EXCEPT !.last_done = ld, !.interval = n, !.interval_unit = u,
                       !.complete_early_days = e.n, !.has_early = e.has] :
     ld \in {Absent, DaysAgo(1), DaysAgo(10)},
     n \in 0..MaxStatusInterval, u \in {"days", "weeks", "fortnights"}, e \in EarlyDays}

InitView ==
  /\ tz \in TimeZones
  /\ locale \in Locales
  /\ clock = ClockStart
  /\ now = Absent
  /\ due = Null
  /\ out = NoOut
  /\ processed = NoProcessed
  /\ view = NoView
  /\ NoHistory
  /\ pc = "start"
  /\ task \in ViewTasks

\* new UpkeepStatusView(app, widgetEventManager): this.now is set once
OpenView ==
  /\ now' = TodayISO(clock)
  /\ pc' = "open"
  /\ UNCHANGED <<tz, locale, task, clock, dateVars, statusVars, histVars>>

\* a markTaskComplete that succeeds: the frontmatter carries today's date
CompleteTask ==
  /\ completions < MaxCompletions
  /\ task' = processFrontMatter(task, TodayISO(clock))
  /\ result' = MarkCompleteSuccess(TodayISO(clock))
  /\ completions' = completions + 1
  /\ UNCHANGED <<tz, locale, now, clock, pc, dateVars, statusVars, note, startNote,
                 username, appends, lastRead, lastRow, calls, filt, wem>>

\* UpkeepStatusView.render / refresh: the task is processed with this.now
\* and its status class and complete button are derived
RenderView ==
  /\ pc \in {"open", "rendered"}
  /\ processed' = processTask(tz, locale, task, now, clock)
  /\ view' = [statusClass |-> getStatusClass(processed', clock),
              eligible |-> isEligibleForCompletion(processed', now, clock),
              canComplete |-> canComplete(processed', now)]
  /\ pc' = "rendered"
  /\ UNCHANGED <<tz, locale, task, now, clock, dateVars, histVars>>

NextView == OpenView \/ CompleteTask \/ RenderView \/ Tick

SpecView == InitView /\ [][NextView]_vars

\* the view shows the task as it is after a completion made today
ShownAfterCompletion ==
  /\ pc = "rendered"
  /\ completions > 0
  /\ processed.last_done = task.last_done
  /\ result.today = TodayISO(clock)

\* C21: after a successful markTaskComplete on day D last_done is D, and
\* while it is day D a view that renders the task shows it up to date,
\* with no complete button
C21_DoneForTheDay ==
  /\ completions > 0 => task.last_done = result.today
  /\ ShownAfterCompletion =>
       /\ processed.status = getLocalizedUpToDate(locale)
       /\ view.statusClass = "recurring-upkeep-up-to-date"
       /\ ~view.eligible
       /\ ~view.canComplete

(***************************************************************************)
(* Further claims about the classification (checked under SpecStatus)      *)
(***************************************************************************)
\* C22: a task without last_done is classified never completed, and not
\* with the status of an overdue task, by determineTaskStatus and by the
\* status class of TaskStyling
C22_NeverCompletedDistinct ==
  /\ (Processed /\ Falsy(task.last_done)) => processed.status # getLocalizedOverdue
  /\ (pc = "class" /\ Falsy(task.last_done)) =>
       CategoryOfClass(view.statusClass) = "NeverCompleted"

(***************************************************************************)
(* SpecSort: a view sorts its processed tasks with TaskProcessor.sortTasks *)
(***************************************************************************)
\* TaskProcessor.sortTasks(tasks): the comparator of the due-date sort on
\* a copy of the list
sortTasks_Reversed(tasks) ==
  [i \in 1..Len(tasks) |-> SortTasks(1, "due-date", tasks)[Len(tasks) + 1 - i]]

sortTasks(tasks) == SortTasks(1, "due-date", tasks)

\* two tasks never completed, two due on the same day, one due earlier and
\* one later
SortPool(loc, clk) ==
  TaskPool(loc, clk)
  \cup { FilterTask(loc, clk, "Boat", {}, NeverStr, 2, "years"),
         FilterTask(loc, clk, "Van", {}, StrOfCivil(CivilFromDays(clk \div 24 - 3)),
                    7, "days") }

InitSort ==
  /\ tz = UTC
  /\ locale = "en"
  /\ clock = ClockStart
  /\ now = Absent
  /\ task = DefaultTask
  /\ due = Null
  /\ out = NoOut
  /\ processed = NoProcessed
  /\ view = NoView
  /\ pc = "start"
  /\ note = <<>>
  /\ startNote = <<>>
  /\ username = "-"
  /\ completions = 0
  /\ appends = 0
  /\ lastRead = <<>>
  /\ lastRow = <<>>
  /\ result = NoResult
  /\ calls = NoCalls
  /\ wem = NoManager
  /\ \E n \in 0..MaxListLen : \E tasks \in ListsOf(SortPool(locale, clock), n) :
       filt = [rev |-> 1, query |-> <<>>, filter |-> EmptyFilter, given |-> tasks,
               tasks |-> tasks, result |-> <<>>]

\* const sortedTasks = TaskProcessor.sortTasks(processedTasks)
SortForView ==
  /\ pc = "start"
  /\ filt' = [filt EXCEPT !.result = sortTasks(filt.tasks)]
  /\ pc' = "sorted"
  /\ UNCHANGED <<tz, locale, task, now, clock, dateVars, statusVars, note, startNote,
                 username, completions, appends, lastRead, lastRow, result, calls, wem>>

NextSort == SortForView

SpecSort == InitSort /\ [][NextSort]_vars

HasDue(t) == t.calculatedNextDue.form = "ymd"

\* C23: the sorted list is a permutation of the list given, no task with
\* a next due date stands before a task without one, the tasks with a next
\* due date are in non-decreasing order of it, and the list given is as it
\* was
C23_SortedByDue ==
  pc = "sorted" =>
    /\ Len(filt.result) = Len(filt.given)
    /\ Range(filt.result) = Range(filt.given)
    /\ \A i, j \in 1..Len(filt.result) :
         i < j =>
           /\ ~(HasDue(filt.result[i]) /\ ~HasDue(filt.result[j]))
           /\ (HasDue(filt.result[i]) /\ HasDue(filt.result[j])) =>
                CalendarDiff(filt.result[j].calculatedNextDue,
                             filt.result[i].calculatedNextDue) >= 0
    /\ filt.tasks = filt.given

\* C23 witness: of three tasks the never-completed one was given last and
\* stands first, and the two others changed places
C23_Witness ==
  /\ pc = "sorted"
  /\ Len(filt.given) = 3
  /\ ~HasDue(filt.given[3])
  /\ filt.result = <<filt.given[3], filt.given[2], filt.given[1]>>
  /\ filt.result[2].calculatedNextDue # filt.result[3].calculatedNextDue

(***************************************************************************)
(* Further claims about the completion history (checked under SpecHist)    *)
(***************************************************************************)
\* C24: the text appendCompletionHistory read is a proper prefix of the
\* text it wrote, whether it created the section or added a row to it
C24_AppendOnly ==
  appends > 0 =>
    /\ Len(note) > Len(lastRead)
    /\ SubSeq(note, 1, Len(lastRead)) = lastRead

\* C24 witness: a first completion created the section after the note's
\* text and a second one added a row after that
C24_Witness ==
  /\ appends = 2
  /\ Len(startNote) > 0
  /\ ~hasCompletionHistorySection(startNote)
  /\ hasCompletionHistorySection(lastRead)
  /\ Len(lastRead) > Len(startNote)
  /\ SubSeq(lastRead, 1, Len(startNote)) = startNote
  /\ Len(note) > Len(lastRead)

\* the number of lines of a text that satisfy a test
CountLines(text, Test(_)) ==
  Cardinality({i \in 1..Len(Lines(text)) : Test(Lines(text)[i])})

\* C25: a note that had no completion-history heading has, after the
\* completions made so far and whatever the locale was at each of them,
\* exactly one completion-history heading and exactly one table header row
C25_OneSection ==
  (~hasCompletionHistorySection(startNote) /\ appends > 0) =>
    /\ CountLines(note, IsHeading) = 1
    /\ CountLines(note, IsHeaderRow) = 1

\* C25 witness: the section was created in German and two rows were added
\* to it after the locale was switched to English
C25_Witness ==
  /\ ~hasCompletionHistorySection(startNote)
  /\ appends = 3
  /\ locale = "en"
  /\ \E i \in 1..Len(note) : note[i] = "## Erledigungsverlauf"
  /\ CountLines(note, IsHeading) = 1

\* a table line that is a completion: neither the header nor the separator
IsDataRow(line) ==
  FiveColumnRow(line) /\ ~IsHeaderRow(line) /\ line # SeparatorRow

\* C26: every history row written by a markTaskComplete call is in the
\* note, also when calls on the file overlapped: the note holds the rows it
\* started with and one row per vault.modify that succeeded
C26_BothRowsKept ==
  CountLines(note, IsDataRow) = CountLines(startNote, IsDataRow) + appends

\* C27: the step that writes a history row puts into its third cell "-"
\* when the frontmatter held no last_done before the step, and otherwise the
\* days between the last_done it held before the step and the clock
C27_DaysSincePrevious ==
  [][appends' = appends + 1 =>
       lastRow'[6] = " " \o (IF Falsy(task.last_done) THEN "-"
                             ELSE daysBetween(task.last_done, clock)) \o " "]_vars

\* C27 witness: a second completion wrote a row whose days since last come
\* from the first completion's date, the first row having been written on
\* an earlier day
C27_Witness ==
  /\ appends = 2
  /\ completions = 2
  /\ lastRow[6] \notin {" - ", " NaN "}
  /\ lastRow[6] # " " \o daysBetween(task.last_done, clock) \o " "

(***************************************************************************)
(* SpecWidget: the WidgetEventManager.  Views register their widgets, the  *)
(* vault, the metadata cache and the workspace emit events, the debounce   *)
(* timer and the active-leaf timer fire, the plugin is unloaded            *)
(***************************************************************************)
MaxRefreshes == 2
MaxTimers == 1

Widgets == {"status-1", "table-2", "table-3"}

\* the events of this.app.vault, whose listeners vault.offref removes
VaultEvents == {"modify", "create", "delete"}

\* the events of this.app.metadataCache and this.app.workspace
OtherEvents == {"changed", "active-leaf-change", "layout-change"}

\* what widget.refresh() does when it is called
Outcomes == {"done", "throws", "rejects"}

\* the manager after its constructor: no widget, the six listeners of
\* setupEventListeners attached, no timer running
NewManager ==
  [widgets |-> <<>>, connected |-> {}, listeners |-> VaultEvents \cup OtherEvents,
   pending |-> FALSE, leafTimers |-> 0, refreshed |-> [w \in Widgets |-> 0],
   errors |-> {}, cleanedUp |-> FALSE]

\* everything but the manager
notWem ==
  <<tz, locale, task, now, clock, pc, dateVars, statusVars, note, startNote, username,
    completions, appends, lastRead, lastRow, result, calls, filt>>

Registered(m) == {m.widgets[i] : i \in 1..Len(m.widgets)}

\* this.widgets.set(registration.id, registration): a new key goes to the
\* end of the Map, a key already there keeps its place
registerWidget(m, w) ==
  [m EXCEPT !.widgets = IF w \in Registered(m) THEN @ ELSE Append(@, w),
            !.cleanedUp = FALSE]

\* this.widgets.delete(id)
unregisterWidget(m, w) ==
  [m EXCEPT !.widgets = SelectSeq(@, LAMBDA x : x # w)]

\* this.debouncedRefresh(): the 300 ms timer is started, or started again
notifyChange(m) == [m EXCEPT !.pending = TRUE]

\* a cleanup that leaves the registry as it is
cleanup_KeepWidgets(m, others) ==
  [m EXCEPT !.listeners = others, !.cleanedUp = TRUE]

\* every ref is handed to this.app.vault.offref, eventRefs = [] and
\* widgets.clear(); the timers that are running are not cancelled.  others
\* are the listeners on the metadata cache and the workspace that
\* vault.offref left attached
cleanup(m, others) ==
  [m EXCEPT !.listeners = others, !.widgets = <<>>, !.cleanedUp = TRUE]

\* a registry walk that takes every widget for active
getActiveWidgets_All(m) ==
  [active |-> m.widgets, widgets |-> m.widgets]

\* the widgets whose isActive() is true, in the order of the Map, and the
\* Map without the others
getActiveWidgets(m) ==
  [active |-> SelectSeq(m.widgets, LAMBDA w : w \in m.connected),
   widgets |-> SelectSeq(m.widgets, LAMBDA w : w \in m.connected)]

\* safeRefreshWidget(widget): widget.refresh() is called; an exception and
\* a rejection are caught and logged
safeRefreshWidget(m, w, outcome) ==
  [m EXCEPT !.refreshed[w] = @ + 1,
            !.errors = IF outcome # "done" THEN @ \cup {w} ELSE @]

\* activeWidgets.map(widget => this.safeRefreshWidget(widget))
RECURSIVE RefreshAll(_, _, _)
RefreshAll(m, active, outcome) ==
  IF active = <<>> THEN m
  ELSE RefreshAll(safeRefreshWidget(m, Head(active), outcome[Head(active)]),
                  Tail(active), outcome)

\* performRefresh() up to its await: the active widgets are collected, the
\* dead ones dropped, and refresh is called on each active one
performRefresh(m, found, outcome) ==
  RefreshAll([m EXCEPT !.widgets = found.widgets, !.errors = {}], found.active, outcome)

InitWidget ==
  /\ tz = UTC
  /\ locale = "en"
  /\ clock = ClockStart
  /\ now = Absent
  /\ task = DefaultTask
  /\ due = Null
  /\ out = NoOut
  /\ processed = NoProcessed
  /\ view = NoView
  /\ pc = "start"
  /\ note = <<>>
  /\ startNote = <<>>
  /\ username = "-"
  /\ completions = 0
  /\ appends = 0
  /\ lastRead = <<>>
  /\ lastRow = <<>>
  /\ result = NoResult
  /\ calls = NoCalls
  /\ filt = NoFilter
  /\ wem = NewManager

\* a view's render(container, ...): the widget is registered with its
\* container, which is in the document or not
RegisterWidget ==
  /\ \E w \in Widgets, isConnected \in BOOLEAN :
       wem' = [registerWidget(wem, w) EXCEPT
                 !.connected = IF isConnected THEN @ \cup {w} ELSE @ \ {w}]
  /\ UNCHANGED notWem

\* unregisterWidget(id)
UnregisterWidget ==
  /\ \E w \in Registered(wem) :
       wem' = [unregisterWidget(wem, w) EXCEPT !.connected = @ \ {w}]
  /\ UNCHANGED notWem

\* the container of a registered widget leaves the document
Detach ==
  /\ \E w \in Registered(wem) \cap wem.connected :
       wem' = [wem EXCEPT !.connected = @ \ {w}]
  /\ UNCHANGED notWem

\* an event whose listener is attached: active-leaf-change starts a 100 ms
\* timer, the others notify at once (the file events for markdown files)
Emit ==
  /\ \E e \in wem.listeners, isMarkdown \in BOOLEAN :
       IF e = "active-leaf-change"
       THEN /\ wem.leafTimers < MaxTimers
            /\ wem' = [wem EXCEPT !.leafTimers = @ + 1]
       ELSE /\ isMarkdown \/ e = "layout-change"
            /\ wem' = notifyChange(wem)
  /\ UNCHANGED notWem

\* setTimeout(() => this.notifyChange(), 100) fires
LeafTimerFires ==
  /\ wem.leafTimers > 0
  /\ wem' = notifyChange([wem EXCEPT !.leafTimers = @ - 1])
  /\ UNCHANGED notWem

\* a complete button calls widgetEventManager.notifyChange()
NotifyChange ==
  /\ wem' = notifyChange(wem)
  /\ UNCHANGED notWem

\* the debounce timer fires: one refresh cycle
DebounceFires ==
  /\ wem.pending
  /\ \A w \in Widgets : wem.refreshed[w] < MaxRefreshes
  /\ \E outcome \in [Registered(wem) -> Outcomes] :
       wem' = performRefresh([wem EXCEPT !.pending = FALSE], getActiveWidgets(wem),
                             outcome)
  /\ UNCHANGED notWem

\* onunload(): widgetEventManager.cleanup(); the containers of widgets that
\* are no longer registered are not followed
Cleanup ==
  /\ \E others \in {{}, wem.listeners \cap OtherEvents} :
       wem' = [cleanup(wem, others) EXCEPT !.connected = @ \cap Registered(cleanup(wem, others))]
  /\ UNCHANGED notWem

NextWidget ==
  \/ RegisterWidget
  \/ UnregisterWidget
  \/ Detach
  \/ Emit
  \/ LeafTimerFires
  \/ NotifyChange
  \/ DebounceFires
  \/ Cleanup

SpecWidget == InitWidget /\ [][NextWidget]_vars

\* C28: a refresh cycle calls refresh once on every widget that was
\* registered and whose isActive() was true, and on no other widget,
\* whatever the refreshes do; the registry afterwards holds the widgets
\* found active and no other
C28_RefreshActiveOnce ==
  [][(wem.pending /\ ~wem'.pending) =>
       /\ \A w \in Widgets :
            wem'.refreshed[w] - wem.refreshed[w] =
              IF w \in Registered(wem) /\ w \in wem.connected THEN 1 ELSE 0
       /\ Registered(wem') = Registered(wem) \cap wem.connected]_vars

\* C28 witness: a cycle over three registered widgets found one inactive and
\* removed it, and refreshed the two others although the first one failed
C28_Witness ==
  /\ wem # NoManager
  /\ wem.widgets = <<"status-1", "table-3">>
  /\ wem.refreshed = [w \in Widgets |-> IF w = "table-2" THEN 0 ELSE 1]
  /\ wem.errors = {"status-1"}
  /\ ~wem.pending

\* C29: from cleanup() until the next registerWidget no refresh of any
\* widget is called, whichever timer fires and whichever event arrives
C29_NoRefreshAfterCleanup ==
  [][wem.cleanedUp => wem'.refreshed = wem.refreshed]_vars

\* C29 witness: widgets had been refreshed before cleanup() ran; since then
\* no widget was registered, every listener is gone and no timer is running
C29_Witness ==
  /\ wem # NoManager
  /\ wem.cleanedUp
  /\ \E w \in Widgets : wem.refreshed[w] > 0
  /\ wem.errors = {}
  /\ ~wem.pending
  /\ wem.leafTimers = 0
  /\ wem.listeners = {}

(***************************************************************************)
(* SpecDaily: a completed task is processed on each day after its          *)
(* completion, with that day's date as now                                 *)
(***************************************************************************)
MaxDays == 12

\* the date k days after a YYYY-MM-DD date
DaysAfter(date, k) ==
  StrOfCivil(CivilFromDays(DaysFromCivil(date.y, date.m, date.d) + k))

\* whole days from one YYYY-MM-DD date to another
DaysFrom(date, later) ==
  DaysFromCivil(later.y, later.m, later.d) - DaysFromCivil(date.y, date.m, date.d)

\* tasks completed in winter, before the start and before the end of
\* daylight saving time
DailyTasks ==
  {[DefaultTask EXCEPT !.last_done = ld, !.interval = p.n, !.interval_unit = p.u] :
     ld \in {Str(2024, 1, 10), Str(2024, 3, 25), Str(2024, 10, 21)},
     p \in {[n |-> 2, u |-> "days"], [n |-> 1, u |-> "weeks"], [n |-> 10, u |-> "days"]}}

InitDaily ==
  /\ tz \in TimeZones
  /\ locale \in Locales
  /\ clock = ClockStart
  /\ task \in DailyTasks
  /\ now = DaysAfter(task.last_done, 1)
  /\ due = Null
  /\ out = NoOut
  /\ processed = processTask(tz, locale, task, now, clock)
  /\ view = NoView
  /\ pc = "processed"
  /\ NoHistory

\* the next day: TaskProcessor.processTask(task, now) with the new date
NextDay ==
  /\ DaysFrom(task.last_done, now) < MaxDays
  /\ now' = DaysAfter(now, 1)
  /\ processed' = processTask(tz, locale, task, now', clock)
  /\ UNCHANGED <<tz, locale, task, clock, pc, dateVars, view, histVars>>

SpecDaily == InitDaily /\ [][NextDay]_vars

\* C30: from one day to the next daysRemaining goes down by one and an
\* overdue task stays overdue; a task whose days have run out is overdue
C30_DailyCountdown ==
  [][/\ processed'.daysRemaining = processed.daysRemaining - 1
     /\ (processed.status = getLocalizedOverdue =>
           processed'.status = getLocalizedOverdue)
     /\ (processed'.daysRemaining <= 0 => processed'.status = getLocalizedOverdue)]_vars

====
